---------------------------- MODULE Spec2Model ----------------------------
(***************************************************************************)
(* A model of 3fetch_stage_mutation.py: the File Locator (find_maf_files), *)
(* the Record Reader (read_maf_file), the Stage Sampler                    *)
(* (get_sample_mutation_data), the Exporter (save_to_excel), the           *)
(* Visualizer (visualize_mutation_cnv) and main.                           *)
(*                                                                         *)
(* Strings that the code inspects character by character (file names) are  *)
(* sequences of one-character strings; every other string is a TLA+ string.*)
(* A data frame is a record [columns, rows]; a row is a function from the   *)
(* frame's column names to cell values.                                    *)
(***************************************************************************)
EXTENDS Integers, Sequences, FiniteSets, TLC

VARIABLES
    \* ---- the run of main ----
    pc,                 \* where main is: "stages", "cases", "export", "visualize", "done", "raised"
    stage_i,            \* index into stages of the stage main's for loop is at
    case_folders,       \* get_sample_mutation_data: the candidate case directories
    selected_cases,     \* get_sample_mutation_data: random.sample's result
    case_i,             \* index into selected_cases of the case the for loop is at
    mutation_data,      \* get_sample_mutation_data: the frames collected for the stage
    all_mutation_data,  \* main: the frames collected so far
    combined_df,        \* main: pd.concat's result, or None
    xlsx,               \* the spreadsheet written: None, or a function sheet name -> rows
    chart,              \* the chart: None, or [points, saved]
    raised,             \* the exception that ended the run, or None
    log,                \* what print() wrote, in order
    layout,             \* history: what the run has seen of the input directory
    \* ---- a unit under test ----
    fs,                 \* a directory tree: path -> [kind, content]
    arg,                \* the argument the unit is called with
    ret                 \* what the call returned (or raised), or NotCalled

mainVars == <<pc, stage_i, case_folders, selected_cases, case_i, mutation_data,
              all_mutation_data, combined_df, xlsx, chart, raised, log, layout>>
unitVars == <<fs, arg, ret>>
vars == <<mainVars, unitVars>>

-----------------------------------------------------------------------------
(* Bounds of the model. *)

MaxNodes == 4      \* files and directories in a tree given to find_maf_files
MaxRows == 3       \* rows of a file given to read_maf_file
MaxTableRows == 4  \* rows of a table given to visualize_mutation_cnv
MaxCaseDirs == 3   \* case directories under BASE_FOLDER, all stages together (Spec)
MaxCases == 5      \* case directories in the one stage directory of SpecSampler:
                   \* more than samples_per_stage, so that sampling leaves one out
MaxFiles == 2      \* .maf files under the case directories a run visits

-----------------------------------------------------------------------------
(* Module-level configuration, lines 8-17. *)

BASE_FOLDER == "./grade_generalised"
stages == <<"StageI", "StageII", "StageIII", "StageIV">>
samples_per_stage == 4

CODING_VARIANTS ==
    {"Missense_Mutation", "Nonsense_Mutation",
     "Frame_Shift_Ins", "Frame_Shift_Del", "Splice_Site",
     "Translation_Start_Site", "In_Frame_Del", "In_Frame_Ins"}

None == [none |-> TRUE]
NaN == "NaN"
NotCalled == [called |-> FALSE]
Exception(name) == [exception |-> name]

Min(a, b) == IF a < b THEN a ELSE b
Range(s) == {s[i] : i \in 1..Len(s)}

RECURSIVE Flatten(_)
Flatten(ss) == IF ss = <<>> THEN <<>> ELSE Head(ss) \o Flatten(Tail(ss))

-----------------------------------------------------------------------------
(* Directory trees.  A path is a sequence of names below the tree's root   *)
(* (the empty path); fs maps each existing path to its entry.              *)

DOT_MAF == <<".", "m", "a", "f">>

\* str.endswith
endswith(s, suffix) ==
    /\ Len(s) >= Len(suffix)
    /\ SubSeq(s, Len(s) - Len(suffix) + 1, Len(s)) = suffix

\* os.path.join(root, f)
join(root, f) == Append(root, f)

DirEntry == [kind |-> "dir", content |-> None]
FileEntry(content) == [kind |-> "file", content |-> content]

isdir(tree, p) == p = <<>> \/ (p \in DOMAIN tree /\ tree[p].kind = "dir")

\* os.scandir order: the names present in directory top, in the order the
\* operating system lists them (order ranks every name the model uses).
listdir(tree, top, order) ==
    SelectSeq(order, LAMBDA n : join(top, n) \in DOMAIN tree)

\* os.walk(top), top-down, links not followed, errors ignored: one
\* (root, dirs, files) triple per directory reachable from top.
RECURSIVE os_walk(_, _, _)
os_walk(tree, top, order) ==
    IF ~isdir(tree, top) THEN <<>>
    ELSE LET names == listdir(tree, top, order)
             dirs == SelectSeq(names, LAMBDA n : tree[join(top, n)].kind = "dir")
             files == SelectSeq(names, LAMBDA n : tree[join(top, n)].kind # "dir")
         IN  <<[root |-> top, dirs |-> dirs, files |-> files]>>
             \o Flatten([i \in 1..Len(dirs) |-> os_walk(tree, join(top, dirs[i]), order)])

\* A locator that looks at the top directory only.
find_maf_files_shallow(tree, directory, order) ==
    LET walk == os_walk(tree, directory, order)
        maf(w) == SelectSeq(w.files, LAMBDA f : endswith(f, DOT_MAF))
    IN  IF walk = <<>> THEN <<>>
        ELSE [j \in 1..Len(maf(walk[1])) |-> join(walk[1].root, maf(walk[1])[j])]

\* lines 19-24
find_maf_files(tree, directory, order) ==
    LET walk == os_walk(tree, directory, order)
        maf(w) == SelectSeq(w.files, LAMBDA f : endswith(f, DOT_MAF))
    IN  Flatten([i \in 1..Len(walk) |->
                    [j \in 1..Len(maf(walk[i])) |-> join(walk[i].root, maf(walk[i])[j])]])


-----------------------------------------------------------------------------
(* The values of main's variables before main starts; a specification of   *)
(* one unit leaves them there.                                             *)

MainIdle ==
    /\ pc = "idle"
    /\ stage_i = 1
    /\ case_folders = <<>>
    /\ selected_cases = <<>>
    /\ case_i = 1
    /\ mutation_data = <<>>
    /\ all_mutation_data = <<>>
    /\ combined_df = None
    /\ xlsx = None
    /\ chart = None
    /\ raised = None
    /\ log = <<>>
    /\ layout = {}

-----------------------------------------------------------------------------
(* SpecLocator: find_maf_files called on a directory of a tree that mkdir  *)
(* and file creation have built.                                           *)

N_a_maf == <<"a", ".", "m", "a", "f">>
N_dot_maf == <<".", "m", "a", "f">>
N_amaf == <<"a", "m", "a", "f">>
N_a_maf_gz == <<"a", ".", "m", "a", "f", ".", "g", "z">>

Names == {N_a_maf, N_dot_maf, N_amaf, N_a_maf_gz}

\* Every order in which the operating system may list the names.
Orders(names) ==
    {o \in [1..Cardinality(names) -> names] : \A i, j \in 1..Cardinality(names) : o[i] = o[j] => i = j}

InitLocator ==
    /\ MainIdle
    /\ fs = <<>>
    /\ arg = None
    /\ ret = NotCalled

Create(entry) ==
    /\ ret = NotCalled
    /\ Cardinality(DOMAIN fs) < MaxNodes
    /\ \E parent \in {<<>>} \cup {p \in DOMAIN fs : fs[p].kind = "dir"}, n \in Names :
          /\ join(parent, n) \notin DOMAIN fs
          /\ fs' = [p \in DOMAIN fs \cup {join(parent, n)} |->
                       IF p \in DOMAIN fs THEN fs[p] ELSE entry]
    /\ UNCHANGED <<arg, ret, mainVars>>

Mkdir == Create(DirEntry)

Touch == Create(FileEntry(None))

Locate ==
    /\ ret = NotCalled
    /\ \E directory \in {<<>>} \cup {p \in DOMAIN fs : fs[p].kind = "dir"}, order \in Orders(Names) :
          /\ arg' = directory
          /\ ret' = [called |-> TRUE, value |-> find_maf_files(fs, directory, order)]
    /\ UNCHANGED <<fs, mainVars>>

NextLocator == Mkdir \/ Touch \/ Locate

SpecLocator == InitLocator /\ [][NextLocator]_vars

\* The files below directory d, at any depth, whose name is some string
\* followed by ".maf".
IsMafName(n) == \E k \in 0..Len(n) : n = SubSeq(n, 1, k) \o DOT_MAF
Under(p, d) == Len(p) > Len(d) /\ SubSeq(p, 1, Len(d)) = d
MafFilesUnder(tree, d) ==
    {p \in DOMAIN tree : tree[p].kind = "file" /\ Under(p, d) /\ IsMafName(p[Len(p)])}

\* C9: find_maf_files returns exactly the paths of the files under the given
\* directory, at any depth, whose name ends with ".maf": each of them once, no
\* other file and no directory; the empty list when there is none.
C9_LocatorExact ==
    ret # NotCalled =>
        /\ Range(ret.value) = MafFilesUnder(fs, arg)
        /\ Len(ret.value) = Cardinality(MafFilesUnder(fs, arg))
        /\ (MafFilesUnder(fs, arg) = {} => ret.value = <<>>)

\* C9 witness: a call on a subdirectory that returned a nested .maf file and left
\* out a directory named like one, a non-.maf file, and a .maf file outside it.
C9_Witness ==
    /\ ret # NotCalled
    /\ arg # <<>>
    /\ \E p \in Range(ret.value) : Len(p) > Len(arg) + 1
    /\ \E p \in DOMAIN fs : fs[p].kind = "dir" /\ IsMafName(p[Len(p)]) /\ Under(p, arg)
    /\ \E p \in DOMAIN fs : fs[p].kind = "file" /\ IsMafName(p[Len(p)]) /\ ~Under(p, arg)

-----------------------------------------------------------------------------
(* The Record Reader, lines 26-42.  A file is what pd.read_csv makes of it: *)
(* either it raises, or it yields a table of the file's columns and rows.  *)

required_columns == {"Hugo_Symbol", "Variant_Classification"}

Unparsable == [parsable |-> FALSE, columns |-> {}, rows |-> <<>>]
Table(columns, rows) == [parsable |-> TRUE, columns |-> columns, rows |-> rows]

DataFrame(columns, rows) == [columns |-> columns, rows |-> rows]

Returned(value, printed) == [raised |-> None, value |-> value, printed |-> printed]
Raised(exception, printed) == [raised |-> exception, value |-> None, printed |-> printed]

\* A filter that keeps every row.
isin_keep_all(rows) == rows

\* maf_df[maf_df["Variant_Classification"].isin(CODING_VARIANTS)], line 37
isin_filter(rows) ==
    SelectSeq(rows, LAMBDA row : row["Variant_Classification"] \in CODING_VARIANTS)

\* A skip message that names no column.
MissingMessage_no_names(maf_path) ==
    [text |-> "Skipping: Missing required columns", path |-> maf_path, names |-> {}]

\* line 33: the message interpolates required_columns
MissingMessage(maf_path) ==
    [text |-> "Skipping: Missing required columns", path |-> maf_path, names |-> required_columns]

\* line 41
ErrorMessage(maf_path, e) ==
    [text |-> "Skipping due to error", path |-> maf_path, error |-> e]

\* A Reader that hands back a table that lacks a required column.
read_maf_try_keep_missing(maf_path, file) ==
    IF ~file.parsable THEN Raised(Exception("ParserError"), <<>>)
    ELSE IF ~(required_columns \subseteq file.columns)
         THEN Returned(DataFrame(file.columns, file.rows), <<MissingMessage(maf_path)>>)
         ELSE LET maf_df == isin_filter(file.rows)
              IN  Returned(IF maf_df # <<>> THEN DataFrame(file.columns, maf_df) ELSE None, <<>>)

\* The body of the try block, lines 29-39.
read_maf_try(maf_path, file) ==
    IF ~file.parsable THEN Raised(Exception("ParserError"), <<>>)
    ELSE IF ~(required_columns \subseteq file.columns)
         THEN Returned(None, <<MissingMessage(maf_path)>>)
         ELSE LET maf_df == isin_filter(file.rows)
              IN  Returned(IF maf_df # <<>> THEN DataFrame(file.columns, maf_df) ELSE None, <<>>)

read_maf_file(maf_path, file) ==
    LET r == read_maf_try(maf_path, file)
    IN  IF r.raised # None
        THEN Returned(None, r.printed \o <<ErrorMessage(maf_path, r.raised)>>)
        ELSE r

-----------------------------------------------------------------------------
(* SpecReader: read_maf_file called on one file.                           *)

VC_VALUES == {"Missense_Mutation", "Frame_Shift_Del", "Silent", NaN}
HUGO_VALUES == {"TP53", "KRAS"}
COLUMN_NAMES == {"Hugo_Symbol", "Variant_Classification", "Chromosome"}

CellValues(c) ==
    IF c = "Variant_Classification" THEN VC_VALUES
    ELSE IF c = "Hugo_Symbol" THEN HUGO_VALUES
    ELSE {"chr17"}

RowsOver(columns) ==
    {r \in [columns -> VC_VALUES \cup HUGO_VALUES \cup {"chr17"}] :
        \A c \in columns : r[c] \in CellValues(c)}

SeqsUpTo(S, n) == UNION {[1..k -> S] : k \in 0..n}

ReaderFiles ==
    {Unparsable} \cup
    UNION {{Table(columns, rows) : rows \in SeqsUpTo(RowsOver(columns), MaxRows)} :
              columns \in SUBSET COLUMN_NAMES}

InitReader ==
    /\ MainIdle
    /\ fs = <<>>
    /\ arg \in [maf_path : {<<N_a_maf>>}, file : ReaderFiles]
    /\ ret = NotCalled

Read ==
    /\ ret = NotCalled
    /\ ret' = read_maf_file(arg.maf_path, arg.file)
    /\ UNCHANGED <<fs, arg, mainVars>>

NextReader == Read

SpecReader == InitReader /\ [][NextReader]_vars

MissingColumns(file) == required_columns \ file.columns

\* C6 as stated: on a parsable file that lacks a required column the Reader
\* returns None, raises nothing, and prints one skip message that names the
\* columns the file is missing.
C6_NamesMissingColumns ==
    (ret # NotCalled /\ arg.file.parsable /\ MissingColumns(arg.file) # {}) =>
        /\ ret.raised = None
        /\ ret.value = None
        /\ Len(ret.printed) = 1
        /\ ret.printed[1].text = "Skipping: Missing required columns"
        /\ ret.printed[1].path = arg.maf_path
        /\ ret.printed[1].names = MissingColumns(arg.file)

\* C6 amended: the skip message names the whole set of required columns
\* (Hugo_Symbol and Variant_Classification), whichever of them is missing.
C6_NamesRequiredColumns ==
    (ret # NotCalled /\ arg.file.parsable /\ MissingColumns(arg.file) # {}) =>
        /\ ret.raised = None
        /\ ret.value = None
        /\ Len(ret.printed) = 1
        /\ ret.printed[1].text = "Skipping: Missing required columns"
        /\ ret.printed[1].path = arg.maf_path
        /\ ret.printed[1].names = {"Hugo_Symbol", "Variant_Classification"}
        /\ MissingColumns(arg.file) \subseteq ret.printed[1].names

\* C6 witness: the Reader has returned on a file that has Hugo_Symbol and
\* coding rows but no Variant_Classification column.
C6_Witness ==
    /\ ret # NotCalled
    /\ arg.file.parsable
    /\ MissingColumns(arg.file) = {"Variant_Classification"}
    /\ arg.file.rows # <<>>
    /\ ret.value = None

\* The positions of the file's rows whose classification is a coding variant,
\* and the j-th of them in file order.
CodingPositions(file) ==
    {i \in 1..Len(file.rows) : file.rows[i]["Variant_Classification"] \in CODING_VARIANTS}
NthPosition(K, j) == CHOOSE i \in K : Cardinality({k \in K : k <= i}) = j

\* C7: on a parsable file with both required columns the Reader returns exactly
\* the rows whose Variant_Classification is in CODING_VARIANTS, in file order
\* and unaltered, under the file's columns; None when there is no such row.
C7_ReaderFilter ==
    (ret # NotCalled /\ arg.file.parsable /\ MissingColumns(arg.file) = {}) =>
        LET K == CodingPositions(arg.file)
        IN  /\ ret.raised = None
            /\ ret.printed = <<>>
            /\ (K = {}) = (ret.value = None)
            /\ K # {} =>
                  /\ ret.value.columns = arg.file.columns
                  /\ Len(ret.value.rows) = Cardinality(K)
                  /\ \A j \in 1..Cardinality(K) :
                        ret.value.rows[j] = arg.file.rows[NthPosition(K, j)]

\* C7 witness: a file whose rows are a coding one, a non-coding one and a coding
\* one came back as its first and third row.
C7_Witness ==
    /\ ret # NotCalled
    /\ arg.file.parsable
    /\ MissingColumns(arg.file) = {}
    /\ Len(arg.file.rows) = 3
    /\ CodingPositions(arg.file) = {1, 3}
    /\ arg.file.rows[1] # arg.file.rows[3]
    /\ ret.value # None
    /\ ret.value.rows = <<arg.file.rows[1], arg.file.rows[3]>>

\* C7, the empty case: a file with only non-coding rows came back as None.
C7_WitnessNoData ==
    /\ ret # NotCalled
    /\ arg.file.parsable
    /\ MissingColumns(arg.file) = {}
    /\ Len(arg.file.rows) = 2
    /\ CodingPositions(arg.file) = {}
    /\ ret.value = None

-----------------------------------------------------------------------------
(* Data frames: stamping (lines 65-66), pd.concat (line 106), groupby       *)
(* (lines 74, 85).                                                        *)

\* maf_df['Case'] = case: the column is added, or overwritten if the file had one.
assign(df, column, value) ==
    DataFrame(df.columns \cup {column},
              [i \in 1..Len(df.rows) |->
                  [c \in df.columns \cup {column} |->
                      IF c = column THEN value ELSE df.rows[i][c]]])

\* A concatenation that keeps the first frame only.
concat_first(frames) == frames[1]

\* pd.concat(frames, ignore_index=True): the union of the columns, every row of
\* every frame in order, NaN where a frame lacks a column.
concat(frames) ==
    LET columns == UNION {frames[i].columns : i \in 1..Len(frames)}
        widen(df) == [i \in 1..Len(df.rows) |->
                         [c \in columns |->
                             IF c \in df.columns THEN df.rows[i][c] ELSE NaN]]
    IN  DataFrame(columns, Flatten([i \in 1..Len(frames) |-> widen(frames[i])]))

\* A grouping that keeps one row per key.
groupby_one(df, by) ==
    LET keys == {df.rows[i][by] : i \in 1..Len(df.rows)} \ {NaN}
    IN  [k \in keys |-> <<CHOOSE r \in Range(df.rows) : r[by] = k>>]

\* df.groupby(by): one group per distinct non-NaN key, holding the rows with
\* that key in their order.
groupby(df, by) ==
    LET keys == {df.rows[i][by] : i \in 1..Len(df.rows)} \ {NaN}
    IN  [k \in keys |-> SelectSeq(df.rows, LAMBDA r : r[by] = k)]

-----------------------------------------------------------------------------
(* The Exporter, lines 71-76, and the Visualizer, lines 78-95.             *)

SavedMessage(n, sheet) == [text |-> "Saved records to sheet", n |-> n, sheet |-> sheet]

\* The sheets are written, and the messages printed, in groupby's sorted key
\* order, which for the labels of stages is their order in stages.
save_to_excel(df, output_file) ==
    IF "Stage" \notin df.columns THEN Raised(Exception("KeyError"), <<>>)
    ELSE LET groups == groupby(df, "Stage")
             order == SelectSeq(stages, LAMBDA st : st \in DOMAIN groups)
         IN  Returned([file |-> output_file, sheets |-> groups],
                      [i \in 1..Len(order) |-> SavedMessage(Len(groups[order[i]]), order[i])])

CHART_FILE == "mutation_frequency_scatter_filtered.png"

\* A Visualizer that checks for Stage only.
visualize_stage_check_only(df) ==
    IF "Stage" \notin df.columns
    THEN Raised(Exception("ValueError"), <<>>)
    ELSE LET mutation_counts == [k \in DOMAIN groupby(df, "Stage") |-> Len(groupby(df, "Stage")[k])]
         IN  Returned([points |-> mutation_counts, saved |-> CHART_FILE], <<>>)

\* lines 80-94: the check, then one point per group of groupby('Stage').size()
visualize_mutation_cnv(df) ==
    IF "Variant_Classification" \notin df.columns \/ "Stage" \notin df.columns
    THEN Raised(Exception("ValueError"), <<>>)
    ELSE LET mutation_counts == [k \in DOMAIN groupby(df, "Stage") |-> Len(groupby(df, "Stage")[k])]
         IN  Returned([points |-> mutation_counts, saved |-> CHART_FILE], <<>>)

-----------------------------------------------------------------------------
(* SpecVisualizer: visualize_mutation_cnv called on one table.             *)

VIS_COLUMNS == {"Variant_Classification", "Stage", "Case"}
VisCellValues(c) ==
    IF c = "Stage" THEN {"StageI", "StageII", "StageIV", NaN}
    ELSE IF c = "Case" THEN {"case1"}
    ELSE {"Missense_Mutation"}

VisRowsOver(columns) ==
    {r \in [columns -> {"StageI", "StageII", "StageIV", NaN, "case1", "Missense_Mutation"}] :
        \A c \in columns : r[c] \in VisCellValues(c)}

VisTables ==
    UNION {{DataFrame(columns, rows) : rows \in SeqsUpTo(VisRowsOver(columns), MaxTableRows)} :
              columns \in SUBSET VIS_COLUMNS}

InitVisualizer ==
    /\ MainIdle
    /\ fs = <<>>
    /\ arg \in VisTables
    /\ ret = NotCalled

Plot ==
    /\ ret = NotCalled
    /\ ret' = visualize_mutation_cnv(arg)
    /\ UNCHANGED <<fs, arg, mainVars>>

NextVisualizer == Plot

SpecVisualizer == InitVisualizer /\ [][NextVisualizer]_vars

StageValues(df) == {df.rows[i]["Stage"] : i \in 1..Len(df.rows)} \ {NaN}

\* C8: on a table that lacks Variant_Classification or Stage the Visualizer
\* raises ValueError and no chart is drawn or saved; on a table that has both it
\* raises nothing and the chart has exactly one point per distinct stage value
\* in the table, whose height is the number of rows with that stage.
C8_Visualizer ==
    ret # NotCalled =>
        IF "Variant_Classification" \notin arg.columns \/ "Stage" \notin arg.columns
        THEN ret.raised = Exception("ValueError") /\ ret.value = None
        ELSE /\ ret.raised = None
             /\ ret.value.saved = CHART_FILE
             /\ DOMAIN ret.value.points = StageValues(arg)
             /\ \A st \in StageValues(arg) :
                   ret.value.points[st] = Cardinality({i \in 1..Len(arg.rows) : arg.rows[i]["Stage"] = st})

\* C8 witness: a table with StageI twice, StageII and StageIV once each and no
\* StageIII gave a chart of exactly 3 points.
C8_Witness ==
    /\ ret # NotCalled
    /\ ret.raised = None
    /\ Len(arg.rows) = 4
    /\ DOMAIN ret.value.points = {"StageI", "StageII", "StageIV"}
    /\ ret.value.points["StageI"] = 2

\* C8 witness of the error case: a table with Stage and rows but no
\* Variant_Classification made the Visualizer raise.
C8_WitnessRaise ==
    /\ ret # NotCalled
    /\ "Stage" \in arg.columns
    /\ "Variant_Classification" \notin arg.columns
    /\ arg.rows # <<>>
    /\ ret.raised # None

-----------------------------------------------------------------------------
(* The input directory as main meets it.  What a listing or a read returns *)
(* is drawn when the code performs it; layout records what was drawn.      *)

CASE_NAMES == <<"case1", "case2", "case3", "case4", "case5", "case6", "case7">>

Row2(hugo, vc) == [c \in {"Hugo_Symbol", "Variant_Classification"} |->
                      IF c = "Hugo_Symbol" THEN hugo ELSE vc]

\* two coding rows around a non-coding one
F_mixed ==
    Table({"Hugo_Symbol", "Variant_Classification"},
          <<Row2("TP53", "Missense_Mutation"), Row2("KRAS", "Silent"), Row2("TP53", "Frame_Shift_Del")>>)
\* one coding row, a further column, and a Stage column of its own
F_wide ==
    Table({"Hugo_Symbol", "Variant_Classification", "Chromosome", "Stage"},
          <<[c \in {"Hugo_Symbol", "Variant_Classification", "Chromosome", "Stage"} |->
                IF c = "Hugo_Symbol" THEN "KRAS"
                ELSE IF c = "Variant_Classification" THEN "Splice_Site"
                ELSE IF c = "Chromosome" THEN "chr17" ELSE "StageIV"]>>)
\* only non-coding rows
F_noncoding ==
    Table({"Hugo_Symbol", "Variant_Classification"}, <<Row2("TP53", "Silent")>>)
\* no Variant_Classification column
F_missing ==
    Table({"Hugo_Symbol"}, <<[c \in {"Hugo_Symbol"} |-> "TP53"]>>)

MainFiles == {F_mixed, F_wide, F_noncoding, F_missing, Unparsable}

\* The trees a case directory may hold: nothing; a.maf beside a.maf.gz; a.maf
\* inside a directory named .maf; both.
EmptyTree == <<>>
TopTree(f) == (<<N_a_maf>> :> FileEntry(f)) @@ (<<N_a_maf_gz>> :> FileEntry(F_mixed))
NestedTree(f) == (<<N_dot_maf>> :> DirEntry) @@ (<<N_dot_maf, N_a_maf>> :> FileEntry(f))

CaseTrees ==
    {EmptyTree, TopTree(F_mixed), TopTree(F_missing), TopTree(Unparsable),
     NestedTree(F_wide), TopTree(F_noncoding) @@ NestedTree(F_mixed)}

\* The orders in which main's directories are listed.
ListingOrders ==
    {<<N_a_maf, N_dot_maf, N_amaf, N_a_maf_gz>>, <<N_a_maf_gz, N_amaf, N_dot_maf, N_a_maf>>}

StageEntries == {e \in layout : e.what = "stage"}
CaseEntries == {e \in layout : e.what = "case"}

RECURSIVE CaseDirsIn(_)
CaseDirsIn(S) ==
    IF S = {} THEN 0 ELSE LET e == CHOOSE x \in S : TRUE IN e.n + CaseDirsIn(S \ {e})

NMaf(tree) == Cardinality(MafFilesUnder(tree, <<>>))

RECURSIVE MafFilesIn(_)
MafFilesIn(S) ==
    IF S = {} THEN 0 ELSE LET e == CHOOSE x \in S : TRUE IN NMaf(e.tree) + MafFilesIn(S \ {e})

CaseDirsSeen == CaseDirsIn(StageEntries)
FilesSeen == MafFilesIn(CaseEntries)

stage_dir(stage) == <<BASE_FOLDER, stage>>
FullPath(stage, case, p) == [stage_dir |-> stage_dir(stage), case |-> case, path |-> p]

-----------------------------------------------------------------------------
(* The Stage Sampler, lines 44-69.                                         *)

NotExistWarning(stage) ==
    [text |-> "Warning: does not exist", stage_dir |-> stage_dir(stage)]
OnlyWarning(stage, found) ==
    [text |-> "Warning: Only samples found", stage_dir |-> stage_dir(stage),
     found |-> found, required |-> samples_per_stage]

\* A sampling that may pick a position twice.
sample_with_replacement(population, k) == [1..k -> 1..Len(population)]

\* random.sample(population, k): any k elements at distinct positions, in any order.
sample(population, k) ==
    {s \in [1..k -> 1..Len(population)] : \A i, j \in 1..k : s[i] = s[j] => i = j}

random_sample(population, k) ==
    {[i \in 1..k |-> population[s[i]]] : s \in sample(population, k)}

\* A stamping that leaves Stage out.
stamp_case_only(maf_df, case, stage) == assign(maf_df, "Case", case)

\* lines 65-66
stamp(maf_df, case, stage) == assign(assign(maf_df, "Case", case), "Stage", stage)

\* lines 60-67: the files of one case, located, read and stamped.
read_case(stage, case, tree, order) ==
    LET maf_files == find_maf_files(tree, <<>>, order)
        read == [i \in 1..Len(maf_files) |->
                    read_maf_file(FullPath(stage, case, maf_files[i]), tree[maf_files[i]].content)]
    IN  [frames |-> Flatten([i \in 1..Len(maf_files) |->
                        IF read[i].value # None
                        THEN <<stamp(read[i].value, case, stage)>> ELSE <<>>]),
         printed |-> Flatten([i \in 1..Len(maf_files) |-> read[i].printed])]

-----------------------------------------------------------------------------
(* Spec: one run of main, lines 97-110.                                    *)

Init ==
    /\ pc = "stages"
    /\ stage_i = 1
    /\ case_folders = <<>>
    /\ selected_cases = <<>>
    /\ case_i = 1
    /\ mutation_data = <<>>
    /\ all_mutation_data = <<>>
    /\ combined_df = None
    /\ xlsx = None
    /\ chart = None
    /\ raised = None
    /\ log = <<>>
    /\ layout = {}
    /\ fs = <<>>
    /\ arg = None
    /\ ret = NotCalled

\* get_sample_mutation_data, lines 46-49: the stage directory does not exist.
StageMissing ==
    /\ pc = "stages"
    /\ stage_i <= Len(stages)
    /\ log' = Append(log, NotExistWarning(stages[stage_i]))
    /\ layout' = layout \cup {[what |-> "stage", stage |-> stages[stage_i], kind |-> "absent", n |-> 0]}
    /\ stage_i' = stage_i + 1
    /\ UNCHANGED <<pc, case_folders, selected_cases, case_i, mutation_data,
                   all_mutation_data, combined_df, xlsx, chart, raised, unitVars>>

\* lines 46-51: the stage path exists and is a regular file: os.path.exists
\* holds and os.listdir raises NotADirectoryError, which nothing catches.
StageNotADirectory ==
    /\ pc = "stages"
    /\ stage_i <= Len(stages)
    /\ layout' = layout \cup {[what |-> "stage", stage |-> stages[stage_i], kind |-> "file", n |-> 0]}
    /\ raised' = Exception("NotADirectoryError")
    /\ pc' = "raised"
    /\ UNCHANGED <<stage_i, case_folders, selected_cases, case_i, mutation_data,
                   all_mutation_data, combined_df, xlsx, chart, log, unitVars>>

\* lines 46-57: the stage directory holds n case directories (and a file, which
\* line 51 leaves out); the cases are sampled.
SampleCasesUpTo(limit) ==
    /\ pc = "stages"
    /\ stage_i <= Len(stages)
    /\ \E n \in 0..limit :
          LET stage == stages[stage_i]
              folders == SubSeq(CASE_NAMES, 1, n)
          IN  /\ case_folders' = folders
              /\ log' = IF Len(folders) < samples_per_stage
                        THEN Append(log, OnlyWarning(stage, Len(folders))) ELSE log
              /\ selected_cases' \in random_sample(folders, Min(samples_per_stage, Len(folders)))
              /\ layout' = layout \cup {[what |-> "stage", stage |-> stage, kind |-> "dir", n |-> n]}
    /\ mutation_data' = <<>>
    /\ case_i' = 1
    /\ pc' = "cases"
    /\ UNCHANGED <<stage_i, all_mutation_data, combined_df, xlsx, chart, raised, unitVars>>

\* lines 59-67: one pass of the loop over selected_cases.
ReadCase ==
    /\ pc = "cases"
    /\ case_i <= Len(selected_cases)
    /\ \E tree \in CaseTrees, order \in ListingOrders :
          LET stage == stages[stage_i]
              case == selected_cases[case_i]
              r == read_case(stage, case, tree, order)
          IN  /\ NMaf(tree) <= MaxFiles - FilesSeen
              /\ mutation_data' = mutation_data \o r.frames
              /\ log' = log \o r.printed
              /\ layout' = layout \cup {[what |-> "case", stage |-> stage, case |-> case, tree |-> tree]}
    /\ case_i' = case_i + 1
    /\ UNCHANGED <<pc, stage_i, case_folders, selected_cases, all_mutation_data,
                   combined_df, xlsx, chart, raised, unitVars>>

SampleCases == SampleCasesUpTo(MaxCaseDirs - CaseDirsSeen)

\* line 69 and lines 102-103: the sampler returns, main extends its list.
ReturnStage ==
    /\ pc = "cases"
    /\ case_i > Len(selected_cases)
    /\ all_mutation_data' = all_mutation_data \o mutation_data
    /\ mutation_data' = <<>>
    /\ case_folders' = <<>>
    /\ selected_cases' = <<>>
    /\ case_i' = 1
    /\ stage_i' = stage_i + 1
    /\ pc' = "stages"
    /\ UNCHANGED <<combined_df, xlsx, chart, raised, log, layout, unitVars>>

XLSX_FILE == "mutation_cnv_filtered.xlsx"

\* lines 105-107: concatenate and export.
Export ==
    /\ pc = "stages"
    /\ stage_i > Len(stages)
    /\ all_mutation_data # <<>>
    /\ LET df == concat(all_mutation_data)
           r == save_to_excel(df, XLSX_FILE)
       IN  /\ combined_df' = df
           /\ log' = log \o r.printed
           /\ IF r.raised # None
              THEN raised' = r.raised /\ pc' = "raised" /\ xlsx' = xlsx
              ELSE raised' = raised /\ pc' = "visualize" /\ xlsx' = r.value
    /\ UNCHANGED <<stage_i, case_folders, selected_cases, case_i, mutation_data,
                   all_mutation_data, chart, layout, unitVars>>

NoDataMessage == [text |-> "No coding mutation data collected! Ensure MAF files exist."]

\* lines 109-110
NoData ==
    /\ pc = "stages"
    /\ stage_i > Len(stages)
    /\ all_mutation_data = <<>>
    /\ log' = Append(log, NoDataMessage)
    /\ pc' = "done"
    /\ UNCHANGED <<stage_i, case_folders, selected_cases, case_i, mutation_data,
                   all_mutation_data, combined_df, xlsx, chart, raised, layout, unitVars>>

\* line 108
Visualize ==
    /\ pc = "visualize"
    /\ LET r == visualize_mutation_cnv(combined_df)
       IN  IF r.raised # None
           THEN raised' = r.raised /\ pc' = "raised" /\ chart' = chart
           ELSE raised' = raised /\ pc' = "done" /\ chart' = r.value
    /\ UNCHANGED <<stage_i, case_folders, selected_cases, case_i, mutation_data,
                   all_mutation_data, combined_df, xlsx, log, layout, unitVars>>

Next ==
    \/ StageMissing
    \/ StageNotADirectory
    \/ SampleCases
    \/ ReadCase
    \/ ReturnStage
    \/ Export
    \/ NoData
    \/ Visualize

Spec == Init /\ [][Next]_vars

\* main is in its stage loop, in the Sampler's case loop, before the
\* Visualizer, finished, or ended by an exception.
TypeOK == pc \in {"stages", "cases", "visualize", "done", "raised"}

-----------------------------------------------------------------------------
(* SpecSampler: one call of get_sample_mutation_data, on the first or the   *)
(* last stage, whose directory may hold more case directories than are     *)
(* sampled.                                                                *)

InitSampler ==
    /\ pc = "stages"
    /\ stage_i \in {1, Len(stages)}
    /\ case_folders = <<>>
    /\ selected_cases = <<>>
    /\ case_i = 1
    /\ mutation_data = <<>>
    /\ all_mutation_data = <<>>
    /\ combined_df = None
    /\ xlsx = None
    /\ chart = None
    /\ raised = None
    /\ log = <<>>
    /\ layout = {}
    /\ fs = <<>>
    /\ arg = None
    /\ ret = NotCalled

SampleStageCases == SampleCasesUpTo(MaxCases)

NextSampler ==
    \/ (StageEntries = {} /\ StageMissing)
    \/ (StageEntries = {} /\ StageNotADirectory)
    \/ (StageEntries = {} /\ SampleStageCases)
    \/ ReadCase
    \/ ReturnStage

SpecSampler == InitSampler /\ [][NextSampler]_vars

\* The cases the loop of lines 59-67 has been through.
CasesRead == {e.case : e \in CaseEntries}
OnlyWarnings == {i \in 1..Len(log) : log[i].text = "Warning: Only samples found"}

\* C3: with N case directories in the stage directory and sample size K =
\* samples_per_stage, the Sampler selects min(K, N) pairwise distinct cases, all
\* among the N candidates, and goes through exactly those, each once; the
\* too-few-cases warning is printed if and only if N < K.
C3_SampleSize ==
    pc = "cases" =>
        LET N == Len(case_folders)
            K == samples_per_stage
        IN  /\ Len(selected_cases) = (IF N >= K THEN K ELSE N)
            /\ \A i, j \in 1..Len(selected_cases) : selected_cases[i] = selected_cases[j] => i = j
            /\ Range(selected_cases) \subseteq Range(case_folders)
            /\ Cardinality(Range(case_folders)) = N
            /\ CasesRead = {selected_cases[i] : i \in 1..(case_i - 1)}
            /\ Cardinality(CaseEntries) = case_i - 1
            /\ case_i <= Len(selected_cases) + 1
            /\ (N < K) = (OnlyWarnings # {})
            /\ \A i \in OnlyWarnings : log[i] = OnlyWarning(stages[stage_i], N)

\* C3 witness: 5 candidates, 4 of them selected and all 4 gone through, no
\* warning printed.
C3_Witness ==
    /\ pc = "cases"
    /\ Len(case_folders) = 5
    /\ Len(selected_cases) = 4
    /\ case_i = 5
    /\ Cardinality(CasesRead) = 4
    /\ OnlyWarnings = {}
    /\ mutation_data # <<>>

\* C3 witness of the other case: 2 candidates, both gone through, warning printed.
C3_WitnessFew ==
    /\ pc = "cases"
    /\ Len(case_folders) = 2
    /\ case_i = 3
    /\ CasesRead = {"case1", "case2"}
    /\ OnlyWarnings # {}

-----------------------------------------------------------------------------
(* Claims about a run of main (Spec).                                      *)

CombinedRows == IF combined_df = None THEN <<>> ELSE combined_df.rows

\* C1: every row of the combined table has a non-null Case, a non-null Stage and
\* a Variant_Classification in CODING_VARIANTS; its Case is a case directory of
\* the directory of its Stage that the Sampler selected and went through.
C1_RowInvariant ==
    combined_df # None =>
        /\ {"Case", "Stage", "Variant_Classification"} \subseteq combined_df.columns
        /\ \A i \in 1..Len(combined_df.rows) :
              LET row == combined_df.rows[i]
              IN  /\ row["Case"] # NaN
                  /\ row["Stage"] # NaN
                  /\ row["Variant_Classification"] \in CODING_VARIANTS
                  /\ \E e \in CaseEntries : e.stage = row["Stage"] /\ e.case = row["Case"]
                  /\ \E e \in StageEntries :
                        /\ e.stage = row["Stage"]
                        /\ e.kind = "dir"
                        /\ row["Case"] \in Range(SubSeq(CASE_NAMES, 1, e.n))

\* C1 witness: the combined table holds rows of two stages, one of them read
\* under StageI from a file whose own Stage column said StageIV.
C1_Witness ==
    /\ combined_df # None
    /\ \E i, j \in 1..Len(combined_df.rows) :
          /\ combined_df.rows[i]["Stage"] = "StageI"
          /\ combined_df.rows[i]["Variant_Classification"] = "Splice_Site"
          /\ combined_df.rows[j]["Stage"] = "StageIII"
    /\ \E e \in CaseEntries : e.tree = TopTree(F_mixed)

\* The number of rows the Reader's filter retains of a file: its rows with a
\* coding classification, if it parses and has both required columns.
FilteredCount(file) ==
    IF file.parsable /\ required_columns \subseteq file.columns
    THEN Cardinality(CodingPositions(file)) ELSE 0

RECURSIVE FilteredInTree(_, _)
FilteredInTree(tree, paths) ==
    IF paths = {} THEN 0
    ELSE LET p == CHOOSE x \in paths : TRUE
         IN  FilteredCount(tree[p].content) + FilteredInTree(tree, paths \ {p})

RECURSIVE FilteredIn(_)
FilteredIn(S) ==
    IF S = {} THEN 0
    ELSE LET e == CHOOSE x \in S : TRUE
         IN  FilteredInTree(e.tree, MafFilesUnder(e.tree, <<>>)) + FilteredIn(S \ {e})

\* C2: once main has passed its loop over the stages, the combined table has as
\* many rows as the filter retains of all the .maf files under all the selected
\* case directories of all the stages together, each file counted once.
C2_RowCount ==
    pc \in {"visualize", "done"} =>
        /\ Len(CombinedRows) = FilteredIn(CaseEntries)
        /\ Cardinality({e.stage : e \in StageEntries}) = Len(stages)

\* C2 witness: a file that retains 2 of its 3 rows and a file that retains its
\* 1 row were read, beside an a.maf.gz that was not, and the table has 3 rows.
C2_Witness ==
    /\ pc = "done"
    /\ Len(CombinedRows) = 3
    /\ Len(all_mutation_data) = 2
    /\ \E e \in CaseEntries : e.tree = TopTree(F_mixed)
    /\ \E e \in CaseEntries : e.tree = NestedTree(F_wide)

\* The rows of the combined table with stage st, in order.
StagePositions(st) == {i \in 1..Len(CombinedRows) : CombinedRows[i]["Stage"] = st}
StagesPresent == {CombinedRows[i]["Stage"] : i \in 1..Len(CombinedRows)}

\* C4: when no row was collected the run ends normally with the diagnostic, no
\* spreadsheet written and no chart made; otherwise the spreadsheet has exactly
\* one sheet per stage that has rows, named by the stage, holding exactly that
\* stage's rows, and no sheet for a stage without rows.
C4_Export ==
    /\ (pc \in {"visualize", "done"} /\ CombinedRows = <<>>) =>
          /\ pc = "done"
          /\ combined_df = None
          /\ xlsx = None
          /\ chart = None
          /\ raised = None
          /\ log[Len(log)] = NoDataMessage
    /\ (pc \in {"visualize", "done"} /\ CombinedRows # <<>>) =>
          /\ xlsx # None
          /\ xlsx.file = XLSX_FILE
          /\ DOMAIN xlsx.sheets = StagesPresent
          /\ StagesPresent \subseteq Range(stages)
          /\ \A st \in StagesPresent :
                /\ Len(xlsx.sheets[st]) = Cardinality(StagePositions(st))
                /\ \A j \in 1..Len(xlsx.sheets[st]) :
                      xlsx.sheets[st][j] = CombinedRows[NthPosition(StagePositions(st), j)]
          /\ \A i \in 1..Len(log) : log[i] # NoDataMessage
    /\ (xlsx # None \/ chart # None) => CombinedRows # <<>>

\* C4 witness: a spreadsheet with a StageI sheet of 2 rows and a StageIV sheet,
\* and no sheet for StageII and StageIII.
C4_Witness ==
    /\ pc = "done"
    /\ xlsx # None
    /\ DOMAIN xlsx.sheets = {"StageI", "StageIV"}
    /\ Len(xlsx.sheets["StageI"]) = 2

\* C4 witness of the empty case: files were read, none retained a row, and the
\* run ended with the diagnostic.
C4_WitnessEmpty ==
    /\ pc = "done"
    /\ combined_df = None
    /\ FilesSeen = 2
    /\ xlsx = None

\* C5 as stated: nothing but the Visualizer's required-columns check (its
\* ValueError) ever ends a run with an exception.
C5_OnlyVisualizerAborts ==
    raised # None => (raised = Exception("ValueError") /\ combined_df # None)

\* C10: the Visualizer's check never fails in a run of main: when main reaches
\* the Visualizer the spreadsheet is written and the combined table has rows and
\* both Variant_Classification and Stage; no run ends in the Visualizer's
\* ValueError.
C10_VisualizerCheckPasses ==
    /\ pc = "visualize" =>
          /\ combined_df # None
          /\ combined_df.rows # <<>>
          /\ {"Variant_Classification", "Stage"} \subseteq combined_df.columns
          /\ xlsx # None
          /\ visualize_mutation_cnv(combined_df).raised = None
    /\ raised # Exception("ValueError")
    /\ chart # None => (pc = "done" /\ xlsx # None)

\* C10 witness: the run is done and the chart drawn, after files that lacked a
\* required column or did not parse were skipped.
C10_Witness ==
    /\ pc = "done"
    /\ chart # None
    /\ \E e \in CaseEntries : e.tree = TopTree(F_missing)
    /\ \E i \in 1..Len(log) : log[i].text = "Skipping: Missing required columns"

=============================================================================
